---- MODULE Spec2Model ----
(***************************************************************************)
(* Model of pdf_generator.py: one run of main(), which builds a            *)
(* PDFGenerator from the command line and calls generate().  The state is  *)
(* the command line and the CSV file on disk (chosen in Init and never     *)
(* changed), the position of the run, the locals of generate(), the FPDF   *)
(* document, the output file, what was printed and the exit status.        *)
(***************************************************************************)
EXTENDS Integers, Sequences, FiniteSets, TLC

VARIABLES
    csv,            \* the file at --csv: kind "missing" | "garbage" | "table"
    line_spacing,   \* --lines
    writable,       \* whether --output can be opened for writing
    pc,             \* position of the run
    rowIdx,         \* index of the row the for loop of generate() is at
    topic,          \* local `topic` of generate()
    pages,          \* local `pages` of generate()
    extraLeft,      \* iterations left of `for _ in range(pages - 1)`
    doc,            \* pages of self.pdf, in the order they were added
    outfile,        \* content of the file at --output (<<>> when not written)
    csvReads,       \* number of pd.read_csv calls
    writeCalls,     \* number of self.pdf.output calls
    written,        \* TRUE once self.pdf.output has returned
    stdout,         \* messages printed, in order
    exitStatus      \* -1 while running, else the exit status of the process

vars == <<csv, line_spacing, writable, pc, rowIdx, topic, pages, extraLeft,
          doc, outfile, csvReads, writeCalls, written, stdout, exitStatus>>

----------------------------------------------------------------------------
(* Bounds of the model *)

MaxRows == 2
MaxPages == 3

(* Program constants *)

LineTop == 20
LineBottom == 298

(* Values of --lines explored: negative, zero, the default, the spec's     *)
(* scenario, a divisor of 278 and one larger than the rule region.         *)
LineSpacings == {-5, 0, 10, 50, 139, 300}

----------------------------------------------------------------------------
(* Cells of the table as pandas holds them *)

NaN == [kind |-> "nan", tenths |-> 0, txt |-> ""]

IntCell(n) == [kind |-> "int", tenths |-> 10 * n, txt |-> ""]

FloatCell(t) == [kind |-> "float", tenths |-> t, txt |-> ""]

StrCell(s) == [kind |-> "str", tenths |-> 0, txt |-> s]

TopicCells == {StrCell("Math"), StrCell("History"), NaN}

PagesCells ==
    {IntCell(n) : n \in -1 .. MaxPages}
        \cup {FloatCell(25), FloatCell(-5), NaN, StrCell("abc")}

\* variant: only the Topic column is required
required_columns_topic_only == {"Topic"}

required_columns == {"Topic", "Pages"}

ColumnSets == {{"Topic", "Pages"}, {"Topic"}, {"Pages"}, {"Name"}}

RowsOver(cols) ==
    IF cols = {"Topic", "Pages"} THEN [Topic : TopicCells, Pages : PagesCells]
    ELSE IF cols = {"Topic"} THEN [Topic : TopicCells]
    ELSE IF cols = {"Pages"} THEN [Pages : PagesCells]
    ELSE [Name : {StrCell("x")}]

Tables ==
    UNION {{[kind |-> "table", columns |-> cols, rows |-> rs] :
                rs \in UNION {[1 .. n -> RowsOver(cols)] : n \in 0 .. MaxRows}} :
           cols \in ColumnSets}

CsvFiles ==
    {[kind |-> "missing", columns |-> {}, rows |-> <<>>],
     [kind |-> "garbage", columns |-> {}, rows |-> <<>>]} \cup Tables

----------------------------------------------------------------------------
(* Conversions *)

\* str(row["Topic"]): text stays, a missing cell prints as "nan"
Str(cell) == IF cell.kind = "nan" THEN "nan" ELSE cell.txt

\* int(x) is defined for numbers only: NaN and non-numeric text raise ValueError
IntRaises(cell) == cell.kind \in {"nan", "str"}

\* int(x) of a number truncates toward zero
Int_(cell) ==
    IF cell.tenths >= 0 THEN cell.tenths \div 10
    ELSE -((-cell.tenths) \div 10)

\* variant: the inner loop written as range(pages)
RangeLen_off_by_one(n) == IF n + 1 > 0 THEN n + 1 ELSE 0

\* variant: a negative count iterates as its magnitude
RangeLen_magnitude(n) == IF n > 0 THEN n ELSE -n

\* range(pages - 1) runs pages - 1 times, and not at all when pages - 1 <= 0
RangeLen(n) == IF n > 0 THEN n ELSE 0

\* variant: the stop value is included
RECURSIVE Range_inclusive(_, _, _)
Range_inclusive(start, stop, step) ==
    IF step > 0
    THEN IF start <= stop
         THEN <<start>> \o Range_inclusive(start + step, stop, step)
         ELSE <<>>
    ELSE IF start >= stop
         THEN <<start>> \o Range_inclusive(start + step, stop, step)
         ELSE <<>>

\* list(range(start, stop, step)) for step # 0
RECURSIVE Range(_, _, _)
Range(start, stop, step) ==
    IF step > 0
    THEN IF start < stop
         THEN <<start>> \o Range(start + step, stop, step)
         ELSE <<>>
    ELSE IF start > stop
         THEN <<start>> \o Range(start + step, stop, step)
         ELSE <<>>

\* range() raises ValueError when the step is zero
RangeRaises(step) == step = 0

\* row.get(key, default): the cell, or the default when the row has no such key
Get(row, key, default) == IF key \in DOMAIN row THEN row[key] ELSE default

\* row[key] raises KeyError when the row has no such key
KeyRaises(row, key) == key \notin DOMAIN row

\* variant: the rows are visited last to first
RowAt_reversed(i) == csv.rows[Len(csv.rows) + 1 - i]

\* df.iterrows() yields the rows in file order
RowAt(i) == csv.rows[i]

\* variant: the loop stops after the first row
RowsDone_after_first == rowIdx >= 1 \/ Len(csv.rows) = 0

\* the for loop over df.iterrows() is exhausted
RowsDone == rowIdx = Len(csv.rows)

\* what add_page(topic) draws on a page: header cell, rule lines, footer cell
Page(t, ys) == [row |-> rowIdx, header |-> t, lines |-> ys, footer |-> t]

\* the page as it is when range() raised after the header cell was drawn
HeaderOnlyPage(t) == [row |-> rowIdx, header |-> t, lines |-> <<>>, footer |-> ""]

----------------------------------------------------------------------------
Init ==
    /\ csv \in CsvFiles
    /\ line_spacing \in LineSpacings
    /\ writable \in BOOLEAN
    /\ pc = "isfile"
    /\ rowIdx = 0
    /\ topic = ""
    /\ pages = 0
    /\ extraLeft = 0
    /\ doc = <<>>
    /\ outfile = <<>>
    /\ csvReads = 0
    /\ writeCalls = 0
    /\ written = FALSE
    /\ stdout = <<>>
    /\ exitStatus = -1

\* sys.exit(1) after print(msg)
SysExit(msg) ==
    /\ stdout' = Append(stdout, msg)
    /\ pc' = "exit"
    /\ exitStatus' = 1

\* an exception nobody catches: traceback, interpreter exits with status 1
Uncaught ==
    /\ pc' = "uncaught"
    /\ exitStatus' = 1
    /\ UNCHANGED stdout

Running(next) ==
    /\ pc' = next
    /\ UNCHANGED <<stdout, exitStatus>>

\* variant: the not-found branch prints but does not exit
CheckFile_no_exit ==
    /\ pc = "isfile"
    /\ IF csv.kind = "missing"
       THEN /\ stdout' = Append(stdout, "Error: CSV file not found")
            /\ pc' = "read_csv"
            /\ UNCHANGED exitStatus
       ELSE Running("read_csv")
    /\ UNCHANGED <<csv, line_spacing, writable, rowIdx, topic, pages, extraLeft,
                   doc, outfile, csvReads, writeCalls, written>>

\* if not os.path.isfile(self.csv_path)
CheckFile ==
    /\ pc = "isfile"
    /\ IF csv.kind = "missing"
       THEN SysExit("Error: CSV file not found")
       ELSE Running("read_csv")
    /\ UNCHANGED <<csv, line_spacing, writable, rowIdx, topic, pages, extraLeft,
                   doc, outfile, csvReads, writeCalls, written>>

\* try: df = pd.read_csv(...) except Exception
ReadCsv ==
    /\ pc = "read_csv"
    /\ csvReads' = csvReads + 1
    /\ IF csv.kind = "garbage"
       THEN SysExit("Error reading CSV")
       ELSE Running("columns")
    /\ UNCHANGED <<csv, line_spacing, writable, rowIdx, topic, pages, extraLeft,
                   doc, outfile, writeCalls, written>>

\* if not required_columns.issubset(df.columns)
CheckColumns ==
    /\ pc = "columns"
    /\ IF ~(required_columns \subseteq csv.columns)
       THEN SysExit("Error: CSV must contain columns")
       ELSE Running("for_row")
    /\ UNCHANGED <<csv, line_spacing, writable, rowIdx, topic, pages, extraLeft,
                   doc, outfile, csvReads, writeCalls, written>>

\* for _, row in df.iterrows(): topic = str(row["Topic"]);
\* pages = int(row.get("Pages", 1))
ForRow ==
    /\ pc = "for_row"
    /\ IF RowsDone
       THEN /\ Running("output")
            /\ UNCHANGED <<rowIdx, topic, pages>>
       ELSE LET row == RowAt(rowIdx + 1)
                cell == Get(row, "Pages", IntCell(1))
            IN  /\ rowIdx' = rowIdx + 1
                /\ IF KeyRaises(row, "Topic")
                   THEN /\ Uncaught
                        /\ UNCHANGED <<topic, pages>>
                   ELSE /\ topic' = Str(row["Topic"])
                        /\ IF IntRaises(cell)
                           THEN /\ Uncaught
                                /\ UNCHANGED pages
                           ELSE /\ pages' = Int_(cell)
                                /\ Running("first_page")
    /\ UNCHANGED <<csv, line_spacing, writable, extraLeft, doc, outfile,
                   csvReads, writeCalls, written>>

\* add_page(self, topic): self.pdf.add_page(), header, rule lines, footer
AddPage(next) ==
    IF RangeRaises(line_spacing)
    THEN /\ doc' = Append(doc, HeaderOnlyPage(topic))
         /\ Uncaught
    ELSE /\ doc' = Append(doc, Page(topic, Range(LineTop, LineBottom, line_spacing)))
         /\ Running(next)

\* self.add_page(topic)  # First page
FirstPage ==
    /\ pc = "first_page"
    /\ AddPage("extra_pages")
    /\ extraLeft' = RangeLen(pages - 1)
    /\ UNCHANGED <<csv, line_spacing, writable, rowIdx, topic, pages, outfile,
                   csvReads, writeCalls, written>>

\* for _ in range(pages - 1): self.add_page(topic)  # Additional pages
ExtraPage ==
    /\ pc = "extra_pages"
    /\ IF extraLeft = 0
       THEN /\ Running("for_row")
            /\ UNCHANGED <<doc, extraLeft>>
       ELSE /\ AddPage("extra_pages")
            /\ extraLeft' = extraLeft - 1
    /\ UNCHANGED <<csv, line_spacing, writable, rowIdx, topic, pages, outfile,
                   csvReads, writeCalls, written>>

\* self.pdf.output(self.output_path)
Output ==
    /\ pc = "output"
    /\ writeCalls' = writeCalls + 1
    /\ IF writable
       THEN /\ outfile' = doc
            /\ written' = TRUE
            /\ Running("print")
       ELSE /\ Uncaught
            /\ UNCHANGED <<outfile, written>>
    /\ UNCHANGED <<csv, line_spacing, writable, rowIdx, topic, pages, extraLeft,
                   doc, csvReads>>

\* print(f"PDF generated successfully: ...") and return from main()
PrintSuccess ==
    /\ pc = "print"
    /\ stdout' = Append(stdout, "PDF generated successfully")
    /\ pc' = "done"
    /\ exitStatus' = 0
    /\ UNCHANGED <<csv, line_spacing, writable, rowIdx, topic, pages, extraLeft,
                   doc, outfile, csvReads, writeCalls, written>>

Next ==
    \/ CheckFile
    \/ ReadCsv
    \/ CheckColumns
    \/ ForRow
    \/ FirstPage
    \/ ExtraPage
    \/ Output
    \/ PrintSuccess

Spec == Init /\ [][Next]_vars

----------------------------------------------------------------------------
(* Vocabulary of the properties *)

Max(a, b) == IF a >= b THEN a ELSE b

\* the table has both required columns
ValidInput ==
    csv.kind = "table" /\ "Topic" \in csv.columns /\ "Pages" \in csv.columns

\* the Pages value of row i, coerced to an integer
PagesOf(i) == Int_(csv.rows[i].Pages)

\* sum of max(Pages, 1) over the rows 1 .. i
RECURSIVE CumPages(_)
CumPages(i) == IF i = 0 THEN 0 ELSE CumPages(i - 1) + Max(PagesOf(i), 1)

\* the first row whose cumulative page count reaches or exceeds n
RowOfPage(n) ==
    CHOOSE i \in 1 .. Len(csv.rows) :
        /\ CumPages(i) >= n
        /\ \A j \in 1 .. i - 1 : CumPages(j) < n

\* number of pages of the document that were added for row i
PagesForRow(i) == Cardinality({n \in 1 .. Len(doc) : doc[n].row = i})

\* the for loop has finished the body for row i
RowFinished(i) == rowIdx > i \/ (rowIdx = i /\ pc \in {"for_row", "output", "print", "done"})

Terminated == exitStatus # -1

----------------------------------------------------------------------------
(* C1: once generate() has completed on a file that exists, parses and has *)
(* the columns Topic and Pages, the number of pages added to the document  *)
(* (and written to the output) is the sum over the rows of max(Pages, 1).  *)
C1_PageCountIsSum ==
    (ValidInput /\ pc = "done") =>
        /\ Len(doc) = CumPages(Len(csv.rows))
        /\ Len(outfile) = CumPages(Len(csv.rows))

C1_Witness ==
    /\ pc = "done"
    /\ Len(csv.rows) = 2
    /\ PagesOf(1) = 3
    /\ PagesOf(2) = -1
    /\ Len(doc) = 4

(* C2: a row whose Pages value is 0 or a negative integer gets exactly one *)
(* page: never more than one, one as soon as its first add_page has run,   *)
(* and the range(pages - 1) loop has no iteration to run.                  *)
C2_NonPositivePagesOnePage ==
    \A i \in 1 .. rowIdx :
        (RowAt(i).Pages.kind = "int" /\ PagesOf(i) <= 0) =>
            /\ PagesForRow(i) <= 1
            /\ (rowIdx > i \/ pc # "first_page") => PagesForRow(i) = 1
            /\ (rowIdx = i /\ pc = "extra_pages") => extraLeft = 0

C2_Witness ==
    /\ pc = "done"
    /\ Len(csv.rows) = 2
    /\ RowAt(1).Pages = IntCell(-1)
    /\ RowAt(2).Pages = IntCell(0)
    /\ PagesForRow(1) = 1
    /\ PagesForRow(2) = 1

(* C3: pages come out in row order: once all rows are rendered, the N-th   *)
(* page of the document (and of the written output) was added for the      *)
(* first row whose cumulative page count reaches or exceeds N, and carries *)
(* the text of that row's Topic as its header and as its footer.           *)
C3_PagesInRowOrder ==
    (pc \in {"output", "print", "done"} \/ writeCalls > 0) =>
        /\ \A n \in 1 .. Len(doc) :
              /\ doc[n].row = RowOfPage(n)
              /\ doc[n].header = Str(csv.rows[RowOfPage(n)].Topic)
              /\ doc[n].footer = Str(csv.rows[RowOfPage(n)].Topic)
        /\ written => outfile = doc

C3_Witness ==
    /\ pc = "done"
    /\ csv.rows = <<[Topic |-> StrCell("Math"), Pages |-> IntCell(2)],
                    [Topic |-> StrCell("History"), Pages |-> IntCell(1)]>>
    /\ Len(outfile) = 3
    /\ outfile[1].header = "Math" /\ outfile[1].footer = "Math"
    /\ outfile[2].header = "Math" /\ outfile[2].footer = "Math"
    /\ outfile[3].header = "History" /\ outfile[3].footer = "History"

(* C4: a row whose Pages cell is missing or cannot be coerced to an        *)
(* integer gets exactly one page, the remaining rows are processed and the *)
(* run ends with the output file written.                                  *)
C4_UncoerciblePagesDefaultToOne ==
    (ValidInput /\ line_spacing > 0 /\ writable /\ Terminated) =>
        /\ pc = "done"
        /\ written
        /\ \A i \in 1 .. Len(csv.rows) :
              IntRaises(RowAt(i).Pages) => PagesForRow(i) = 1

(* C5: every failure of a run is caught, reported as a message and ends    *)
(* the process with a non-zero status; none escapes as an uncaught         *)
(* exception.                                                              *)
C5_EveryFailureCaught ==
    (Terminated /\ pc # "done") =>
        /\ pc = "exit"
        /\ exitStatus # 0
        /\ Len(stdout) = 1

(* C6: when the input path is not an existing file the run never reads the *)
(* CSV, never adds a page and never invokes the output write, and it ends  *)
(* in sys.exit(1) after the not-found message.                             *)
C6_MissingFileExitsFirst ==
    csv.kind = "missing" =>
        /\ csvReads = 0
        /\ doc = <<>>
        /\ writeCalls = 0
        /\ ~written
        /\ pc \in {"isfile", "exit"}
        /\ pc = "exit" =>
              exitStatus = 1 /\ stdout = <<"Error: CSV file not found">>

C6_Witness ==
    csv.kind = "missing" /\ pc = "exit" /\ exitStatus = 1 /\ csvReads = 0

(* C7: when the parsed table lacks the column Topic or the column Pages    *)
(* the run ends in sys.exit(1) before any add_page call and before the     *)
(* output write; the document still has zero pages at termination.         *)
C7_MissingColumnExitsBeforePages ==
    (csv.kind = "table" /\ ("Topic" \notin csv.columns \/ "Pages" \notin csv.columns)) =>
        /\ doc = <<>>
        /\ writeCalls = 0
        /\ pc \in {"isfile", "read_csv", "columns", "exit"}
        /\ pc = "exit" =>
              exitStatus = 1 /\ stdout = <<"Error: CSV must contain columns">>

C7_Witness ==
    /\ csv.kind = "table"
    /\ csv.columns = {"Topic"}
    /\ Len(csv.rows) = 2
    /\ pc = "exit"
    /\ Len(doc) = 0

(* C8: a line spacing of 0 or less is rejected before any page is drawn:   *)
(* the run ends with an error while the document has zero pages.           *)
C8_NonPositiveSpacingRejected ==
    line_spacing <= 0 =>
        /\ Len(doc) = 0
        /\ pc # "done"

(* C9 as stated: for positive spacing s every page has floor((298 - 20)/s) *)
(* rule lines, at offsets 20, 20+s, ... strictly below 298; spacing 50     *)
(* gives 5 lines.                                                          *)
C9_FloorLineCount ==
    line_spacing > 0 =>
        \A n \in 1 .. Len(doc) :
            /\ Len(doc[n].lines) = (LineBottom - LineTop) \div line_spacing
            /\ \A k \in 1 .. Len(doc[n].lines) :
                  /\ doc[n].lines[k] = LineTop + (k - 1) * line_spacing
                  /\ doc[n].lines[k] < LineBottom
            /\ line_spacing = 50 => Len(doc[n].lines) = 5

(* C9 amended: for positive spacing s every page has ceil((298 - 20)/s)    *)
(* rule lines, at offsets 20, 20+s, ... up to the last one strictly below  *)
(* 298; spacing 50 gives 6 lines (20, 70, 120, 170, 220, 270).             *)
C9_CeilLineCount ==
    line_spacing > 0 =>
        \A n \in 1 .. Len(doc) :
            /\ Len(doc[n].lines) =
                  (LineBottom - LineTop + line_spacing - 1) \div line_spacing
            /\ \A k \in 1 .. Len(doc[n].lines) :
                  /\ doc[n].lines[k] = LineTop + (k - 1) * line_spacing
                  /\ doc[n].lines[k] < LineBottom
            /\ LineTop + Len(doc[n].lines) * line_spacing >= LineBottom
            /\ line_spacing = 50 => doc[n].lines = <<20, 70, 120, 170, 220, 270>>

C9_Witness ==
    /\ line_spacing = 50
    /\ Len(doc) > 0
    /\ Len(doc[1].lines) = 6

(* C10: the output write is invoked at most once, and only when every row  *)
(* has had all of its pages added; the success message is printed only     *)
(* after that write has returned.                                          *)
C10_SingleWriteAtEnd ==
    /\ writeCalls <= 1
    /\ writeCalls = 1 =>
          /\ rowIdx = Len(csv.rows)
          /\ Len(doc) = CumPages(Len(csv.rows))
          /\ pc \in {"print", "done", "uncaught"}
    /\ (\E k \in 1 .. Len(stdout) : stdout[k] = "PDF generated successfully") =>
          /\ written
          /\ writeCalls = 1
          /\ outfile = doc
    /\ ~written => outfile = <<>>

C10_Witness ==
    /\ pc = "done"
    /\ writeCalls = 1
    /\ Len(csv.rows) = 2
    /\ Len(outfile) = 6
    /\ stdout = <<"PDF generated successfully">>

====
